---- MODULE Spec2Model ----
(***************************************************************************)
(* Model of the Streamlit Docker dashboard, file navigator page            *)
(* (src/src/pages/navigate.py).  One step of the model is one run of the   *)
(* page script: either the run triggered by a user interaction with a      *)
(* widget rendered by the previous complete run, or the run started by     *)
(* st.rerun() (and the very first page load).                              *)
(*                                                                         *)
(* Python strings are sequences of one-character strings, so that          *)
(* rstrip, os.path.dirname and os.path.join are computed as posixpath      *)
(* computes them.  st.session_state is a function whose domain is the set  *)
(* of keys present.  None and '' are both written <<>> where the code      *)
(* only tests truthiness.                                                  *)
(***************************************************************************)
EXTENDS Integers, Sequences, FiniteSets, TLC

VARIABLES session_state, fs, selectbox, uploaded_file, pending_run,
          widgets, messages, calls, downloads, last, delete_history, interactions,
          last_upload, stdout, listing, entered_from, delete_places,
          status, returned, display_lines, log_buffer, received

vars == <<session_state, fs, selectbox, uploaded_file, pending_run,
          widgets, messages, calls, downloads, last, delete_history, interactions,
          last_upload, stdout, listing, entered_from, delete_places,
          status, returned, display_lines, log_buffer, received>>

\* the variables of the other pages of the dashboard
others == <<status, returned, display_lines, log_buffer, received>>

(***************************************************************************)
(* Strings                                                                 *)
(***************************************************************************)
None == <<>>
SLASH == "/"
S_root == <<"r", "o", "o", "t">>
S_up == <<"u", "p">>
S_tmp == <<"t", "m", "p">>
S_home == <<"h", "o", "m", "e">>
S_goto == <<"g", "o", "t", "o", ":">>
P_root == <<"/">>
P_tmp == <<"/", "t", "m", "p">>
P_home == <<"/", "h", "o", "m", "e">>

Truthy(v) == v # <<>>

startswith(s, prefix) ==
    /\ Len(s) >= Len(prefix)
    /\ SubSeq(s, 1, Len(prefix)) = prefix

endswith(s, c) == Len(s) > 0 /\ s[Len(s)] = c

\* s[n:]
SliceFrom(s, n) == SubSeq(s, n + 1, Len(s))

\* str.rstrip('/')
RECURSIVE rstrip(_)
rstrip(s) ==
    IF Len(s) > 0 /\ s[Len(s)] = SLASH
    THEN rstrip(SubSeq(s, 1, Len(s) - 1))
    ELSE s

SPACE == " "
NL == "\n"
IsSpace(ch) == ch \in {SPACE, NL, "\t"}

\* the first position from i on that holds no whitespace (Len(s) + 1 if none)
RECURSIVE SkipSpace(_, _)
SkipSpace(s, i) ==
    IF i <= Len(s) /\ IsSpace(s[i]) THEN SkipSpace(s, i + 1) ELSE i

\* the first position from i on that holds whitespace (Len(s) + 1 if none)
RECURSIVE SkipWord(_, _)
SkipWord(s, i) ==
    IF i <= Len(s) /\ ~IsSpace(s[i]) THEN SkipWord(s, i + 1) ELSE i

\* the last position up to j that holds no whitespace (0 if none)
RECURSIVE RSkipSpace(_, _)
RSkipSpace(s, j) ==
    IF j >= 1 /\ IsSpace(s[j]) THEN RSkipSpace(s, j - 1) ELSE j

\* str.strip()
strip(s) == SubSeq(s, SkipSpace(s, 1), RSkipSpace(s, Len(s)))

\* str.split(None, maxsplit) read from position i: at most maxsplit words are
\* cut at runs of whitespace, then the rest of the string, without its
\* leading whitespace, is the last part
RECURSIVE SplitWs(_, _, _)
SplitWs(s, i, maxsplit) ==
    LET j == SkipSpace(s, i)
        k == SkipWord(s, j)
    IN  IF j > Len(s) THEN <<>>
        ELSE IF maxsplit > 0
        THEN <<SubSeq(s, j, k - 1)>> \o SplitWs(s, k, maxsplit - 1)
        ELSE <<SubSeq(s, j, Len(s))>>

\* the pieces of s from position start on, cut at the positions in at
RECURSIVE SplitAt(_, _, _)
SplitAt(s, at, start) ==
    LET rest == {i \in at : i >= start}
        k == CHOOSE i \in rest : \A j \in rest : i <= j
    IN  IF rest = {} THEN <<SubSeq(s, start, Len(s))>>
        ELSE <<SubSeq(s, start, k - 1)>> \o SplitAt(s, at, k + 1)

\* str.split('\n')
SplitNl(s) == SplitAt(s, {i \in 1..Len(s) : s[i] = NL}, 1)

\* sep.join(parts)
RECURSIVE JoinWith(_, _)
JoinWith(parts, sep) ==
    IF parts = <<>> THEN <<>>
    ELSE IF Len(parts) = 1 THEN parts[1]
    ELSE parts[1] \o <<sep>> \o JoinWith(Tail(parts), sep)

\* str.rfind('/') + 1 : length of the prefix ending at the last '/'
RECURSIVE rfind1(_)
rfind1(s) ==
    IF Len(s) = 0 THEN 0
    ELSE IF s[Len(s)] = SLASH THEN Len(s)
    ELSE rfind1(SubSeq(s, 1, Len(s) - 1))

AllSlashes(s) == \A i \in 1..Len(s) : s[i] = SLASH

\* posixpath.dirname
dirname(p) ==
    LET head == SubSeq(p, 1, rfind1(p))
    IN  IF Len(head) > 0 /\ ~AllSlashes(head) THEN rstrip(head) ELSE head

\* posixpath.basename
basename(p) == SliceFrom(p, rfind1(p))

\* posixpath.join(a, b)
join(a, b) ==
    IF startswith(b, <<SLASH>>) THEN b
    ELSE IF Len(a) = 0 \/ endswith(a, SLASH) THEN a \o b
    ELSE a \o <<SLASH>> \o b

(***************************************************************************)
(* The Docker daemon: containers and their filesystems.                    *)
(* A node is the sequence of the names on the way from the root; a         *)
(* filesystem maps the existing nodes to [kind, data].                     *)
(***************************************************************************)
Containers == {"c1", "c2"}

\* container.attrs['Config']['WorkingDir'] as configured ('' when unset)
ConfigWorkingDir(c) == IF c = "c1" THEN <<"/", "a">> ELSE <<>>

\* names a directory listing can show, in the order ls sorts them
NameOrder == << <<"a">>, <<"b">>, <<"c">> >>
Names == {NameOrder[i] : i \in 1..Len(NameOrder)}

Dir == [kind |-> "d", data |-> <<>>]
File(d) == [kind |-> "f", data |-> d]

InitFs(c) ==
    IF c = "c1"
    THEN (<<>> :> Dir) @@ (<< <<"a">> >> :> Dir) @@ (<< <<"b">> >> :> File(<<1>>))
         @@ (<< <<"a">>, <<"a">> >> :> Dir) @@ (<< <<"a">>, <<"b">> >> :> File(<<2>>))
    ELSE (<<>> :> Dir) @@ (<< <<"a">> >> :> Dir) @@ (<< <<"b">> >> :> File(<<>>))

\* the non-empty components of a path string
RECURSIVE Components(_, _)
Components(p, cur) ==
    LET done == IF cur = <<>> THEN <<>> ELSE <<cur>>
    IN  IF p = <<>> THEN done
        ELSE IF Head(p) = SLASH THEN done \o Components(Tail(p), <<>>)
        ELSE Components(Tail(p), Append(cur, Head(p)))

\* The node a path string names.  A command run by exec_run starts in the
\* container's working directory; the archive API resolves from the root.
NodeOf(c, p, exec) ==
    IF startswith(p, <<SLASH>>) \/ ~exec THEN Components(p, <<>>)
    ELSE Components(ConfigWorkingDir(c), <<>>) \o Components(p, <<>>)

\* the path string names an existing node ('' names nothing, 'file/' is ENOTDIR)
PathExists(f, c, p, exec) ==
    LET n == NodeOf(c, p, exec)
    IN  /\ p # <<>>
        /\ n \in DOMAIN f
        /\ (f[n].kind = "f" => ~endswith(p, SLASH))

IsPrefix(a, b) == Len(a) <= Len(b) /\ SubSeq(b, 1, Len(a)) = a

\* the names of the children of node n, in listing order
ChildNames(f, n) ==
    SelectSeq(NameOrder, LAMBDA x : Append(n, x) \in DOMAIN f)

Digits == <<"0", "1", "2", "3", "4", "5", "6", "7", "8", "9">>
SizeStr(k) == <<Digits[k + 1]>>
S_total == <<"t", "o", "t", "a", "l">>
PermDir == <<"d", "r", "w", "x">>
PermFile == <<"-", "r", "w", "-">>
F_links == <<"1">>
F_owner == <<"r", "o", "o", "t">>
F_month == <<"J", "a", "n">>
F_day == <<"1">>
F_time == <<"0", "0", ":", "0", "0">>

\* one line of ls -la: eight columns and the name
LsLine(node, name) ==
    JoinWith(<<IF node.kind = "d" THEN PermDir ELSE PermFile, F_links, F_owner,
               F_owner, IF node.kind = "d" THEN <<"0">> ELSE SizeStr(Len(node.data)),
               F_month, F_day, F_time, name>>, SPACE)

\* the summary line of a directory listing
TotalLine == S_total \o <<SPACE, "0">>

RECURSIVE MapLines(_, _, _)
MapLines(f, n, names) ==
    IF names = <<>> THEN <<>>
    ELSE LsLine(f[Append(n, Head(names))], Head(names)) \o <<NL>>
         \o MapLines(f, n, Tail(names))

\* stdout of  ls -la "<p>"  for an existing path: a directory prints the
\* total line, '.', '..' and its entries; a file prints its own line only
LsOutput(f, c, p) ==
    LET n == NodeOf(c, p, TRUE)
    IN  IF f[n].kind = "d"
        THEN TotalLine \o <<NL>> \o LsLine(Dir, <<".">>) \o <<NL>>
             \o LsLine(Dir, <<".", ".">>) \o <<NL>>
             \o MapLines(f, n, ChildNames(f, n))
        ELSE LsLine(f[n], p) \o <<NL>>

\* rm -rf / rm -f of an existing or missing path: the node and all below it go
RmResult(f, c, p) ==
    LET n == NodeOf(c, p, TRUE)
    IN  [x \in {y \in DOMAIN f : ~IsPrefix(n, y) \/ p = <<>>} |-> f[x]]

\* tar members: [name, isfile, size, data]
Member(name, node) ==
    [name |-> name, isfile |-> node.kind = "f", size |-> Len(node.data), data |-> node.data]

RECURSIVE TarOfNode(_, _, _)
RECURSIVE TarOfChildren(_, _, _, _)
TarOfNode(f, n, name) ==
    <<Member(name, f[n])>>
    \o (IF f[n].kind = "d" THEN TarOfChildren(f, n, name, ChildNames(f, n)) ELSE <<>>)
TarOfChildren(f, n, name, names) ==
    IF names = <<>> THEN <<>>
    ELSE TarOfNode(f, Append(n, Head(names)), name \o <<SLASH>> \o Head(names))
         \o TarOfChildren(f, n, name, Tail(names))

\* container.get_archive(p) of an existing path
GetArchive(f, c, p) ==
    LET n == NodeOf(c, p, FALSE)
    IN  TarOfNode(f, n, IF n = <<>> THEN <<SLASH>> ELSE n[Len(n)])

\* container.put_archive(p, tar): p must be an existing directory and no
\* member may replace a directory
CanPutArchive(f, c, p, tar) ==
    LET n == NodeOf(c, p, FALSE)
    IN  /\ PathExists(f, c, p, FALSE)
        /\ f[n].kind = "d"
        /\ \A i \in 1..Len(tar) :
              Append(n, tar[i].name) \in DOMAIN f => f[Append(n, tar[i].name)].kind = "f"

RECURSIVE PutArchive(_, _, _)
PutArchive(f, n, tar) ==
    IF tar = <<>> THEN f
    ELSE PutArchive((Append(n, Head(tar).name) :> File(SubSeq(Head(tar).data, 1, Head(tar).size))) @@ f,
                    n, Tail(tar))

(***************************************************************************)
(* st.session_state                                                        *)
(***************************************************************************)
Has(ss, k) == k \in DOMAIN ss
Put(ss, k, v) == [x \in DOMAIN ss \cup {k} |-> IF x = k THEN v ELSE ss[x]]
Del(ss, k) == [x \in DOMAIN ss \ {k} |-> ss[x]]
EmptySession == [x \in {} |-> <<>>]

\* a widget of the page: its key (or label) and the entry name it belongs to
W(key, name) == [key |-> key, name |-> name]

\* how a remote call can end: exit code 0, nonzero exit code, exception
Outcomes == {"ok", "nonzero", "raise"}

Call(op, c, path, result) == [op |-> op, container |-> c, path |-> path, result |-> result]

(***************************************************************************)
(* navigate.py, top of the script                                          *)
(***************************************************************************)
\* workdir as the script computes it
workdir(c) == IF Truthy(ConfigWorkingDir(c)) THEN ConfigWorkingDir(c) ELSE P_root

\* SessionInit that records the new container but keeps the path
SessionInit_KeepPath(ss, c) ==
    IF ~Has(ss, "current_path")
    THEN Put(Put(ss, "selected_container", <<c>>), "current_path", workdir(c))
    ELSE Put(ss, "selected_container", <<c>>)

\* Initialize session state for current path; reset path when container changes
SessionInit(ss, c) ==
    IF ~Has(ss, "selected_container") \/ ss["selected_container"] # <<c>>
    THEN Put(Put(ss, "selected_container", <<c>>), "current_path", workdir(c))
    ELSE IF ~Has(ss, "current_path") THEN Put(ss, "current_path", workdir(c))
    ELSE ss

NavPending(ss) == Has(ss, "nav_action") /\ Truthy(ss["nav_action"])

\* an 'up' branch that goes to the root
NavUp_ToRoot(ss) == Put(ss, "current_path", P_root)

\* the 'up' branch
NavUp(ss) ==
    LET current == rstrip(ss["current_path"])
    IN  IF Truthy(current) /\ current # P_root
        THEN LET parent == dirname(current)
             IN  Put(ss, "current_path", IF Truthy(parent) THEN parent ELSE P_root)
        ELSE ss

\* a handler that leaves nav_action set
NavHandler_KeepsAction(ss) ==
    IF ss["nav_action"] = S_up THEN NavUp(ss)
    ELSE IF startswith(ss["nav_action"], S_goto)
    THEN Put(ss, "current_path", SliceFrom(ss["nav_action"], 5))
    ELSE Put(ss, "current_path", P_root)

\* a handler in which 'root' leaves the path as it is
NavHandler_RootStays(ss) ==
    IF ss["nav_action"] = S_root THEN Put(ss, "nav_action", None)
    ELSE IF ss["nav_action"] = S_up THEN NavUp(Put(ss, "nav_action", None))
    ELSE Put(Put(ss, "nav_action", None), "current_path", SliceFrom(ss["nav_action"], 5))

\* Handle navigation action if set
NavHandler(ss) ==
    LET action == ss["nav_action"]
        ss1 == Put(ss, "nav_action", None)
    IN  IF action = S_root THEN Put(ss1, "current_path", P_root)
        ELSE IF action = S_up THEN NavUp(ss1)
        ELSE IF action = S_tmp THEN Put(ss1, "current_path", P_tmp)
        ELSE IF action = S_home THEN Put(ss1, "current_path", P_home)
        ELSE IF startswith(action, S_goto) THEN Put(ss1, "current_path", SliceFrom(action, 5))
        ELSE ss1

NavWidgets ==
    {W("selectbox", <<>>), W("text_input", <<>>), W("btn_root", <<>>),
     W("btn_up", <<>>), W("btn_tmp", <<>>), W("btn_home", <<>>)}

\* the navigation controls: the action the interaction e requests, if any
ControlAction(ss, e) ==
    IF e.key = "text_input" /\ e.value # ss["current_path"] THEN S_goto \o e.value
    ELSE IF e.key = "btn_root" THEN S_root
    ELSE IF e.key = "btn_up" THEN S_up
    ELSE IF e.key = "btn_tmp" THEN S_tmp
    ELSE IF e.key = "btn_home" THEN S_home
    ELSE None

(***************************************************************************)
(* list_directory                                                          *)
(***************************************************************************)
Entry(parts) ==
    [name |-> parts[9], is_dir |-> startswith(parts[1], <<"d">>),
     permissions |-> parts[1], size |-> parts[5],
     date |-> parts[6] \o <<SPACE>> \o parts[7] \o <<SPACE>> \o parts[8]]

\* line.split() without the limit of 8 splits
split_Unlimited(line) == SplitWs(line, 1, Len(line))

\* line.split(None, 8)
split(line) == SplitWs(line, 1, 8)

\* the loop over the lines that keeps the '.' and '..' entries
RECURSIVE ParseLines_KeepDots(_)
ParseLines_KeepDots(lines) ==
    IF lines = <<>> THEN <<>>
    ELSE LET parts == split(Head(lines))
         IN  (IF Len(parts) >= 9 THEN <<Entry(parts)>> ELSE <<>>)
             \o ParseLines_KeepDots(Tail(lines))

\* the loop over the lines: one entry per line of at least 9 parts whose
\* name is neither '.' nor '..'
RECURSIVE ParseLines(_)
ParseLines(lines) ==
    IF lines = <<>> THEN <<>>
    ELSE LET parts == split(Head(lines))
         IN  (IF Len(parts) >= 9 /\ parts[9] \notin {<<".">>, <<".", ".">>}
              THEN <<Entry(parts)>> ELSE <<>>)
             \o ParseLines(Tail(lines))

\* output.strip().split('\n')[1:]
SkipTotal(output) == Tail(SplitNl(strip(output)))

\* the files parsed from the standard output of the listing command
parse_output(output) == ParseLines(SkipTotal(output))

\* (files, error) for the outcome o of the exec_run call.  The text of an
\* exception is taken to be non-empty, so that "if error" sees every failure.
list_directory(f, c, path, o) ==
    IF o = "raise" THEN [ok |-> FALSE, files |-> <<>>, error |-> "exception"]
    ELSE IF o = "nonzero" \/ ~PathExists(f, c, path, TRUE)
    THEN [ok |-> FALSE, files |-> <<>>, error |-> "Error accessing path"]
    ELSE [ok |-> TRUE, files |-> parse_output(LsOutput(f, c, path)), error |-> ""]

LsResult(f, c, path, o) ==
    IF o = "raise" THEN "raise"
    ELSE IF o = "nonzero" \/ ~PathExists(f, c, path, TRUE) THEN "nonzero" ELSE "ok"

(***************************************************************************)
(* The page below the listing.  f is the map container -> filesystem.      *)
(* A stage of the script yields [rerun, ss, fs, messages, calls]: rerun    *)
(* when it ended the run with st.rerun().                                  *)
(***************************************************************************)
Dirs(files) == SelectSeq(files, LAMBDA x : x.is_dir)
RegularFiles(files) == SelectSeq(files, LAMBDA x : ~x.is_dir)
NameSet(items) == {items[i].name : i \in 1..Len(items)}

Stage(rerun, ss, f, m, cl) ==
    [rerun |-> rerun, ss |-> ss, fs |-> f, messages |-> m, calls |-> cl]

Pending(ss, k, n) == Has(ss, k) /\ ss[k] = n

\* EnterPath that appends the name to the path as it is
EnterPath_RawConcat(ss, name) == ss["current_path"] \o name

\* "Build new path properly" of the directory button
EnterPath(ss, name) ==
    LET current == rstrip(ss["current_path"])
    IN  join(IF current = <<>> THEN P_root ELSE current, name)

\* ConfirmDelete that forgets to delete the session key on success
ConfirmDelete_KeepPending(ss, f, c, name, cmd, k, okmsg, failmsg, errmsg, o) ==
    LET full_path == join(ss["current_path"], name)
    IN  IF o = "ok"
        THEN Stage(TRUE, ss, [f EXCEPT ![c] = RmResult(f[c], c, full_path)],
                   {okmsg}, <<Call(cmd, c, full_path, o)>>)
        ELSE Stage(FALSE, ss, f, {IF o = "nonzero" THEN failmsg ELSE errmsg},
                   <<Call(cmd, c, full_path, o)>>)

\* "Yes, Delete" of a directory (cmd = "rm -rf", k = "dir_to_delete") or of
\* a file (cmd = "rm -f", k = "file_to_delete"); o is how exec_run ends
ConfirmDelete(ss, f, c, name, cmd, k, okmsg, failmsg, errmsg, o) ==
    LET full_path == join(ss["current_path"], name)
    IN  IF o = "ok"
        THEN Stage(TRUE, Del(ss, k), [f EXCEPT ![c] = RmResult(f[c], c, full_path)],
                   {okmsg}, <<Call(cmd, c, full_path, o)>>)
        ELSE Stage(FALSE, ss, f, {IF o = "nonzero" THEN failmsg ELSE errmsg},
                   <<Call(cmd, c, full_path, o)>>)

\* DirLoop whose bin button removes the directory at once, without a dialog
DirLoop_DeleteAtOnce(ss, f, c, files, e, o) ==
    IF e.name \notin NameSet(Dirs(files)) THEN Stage(FALSE, ss, f, {}, <<>>)
    ELSE IF e.key = "dir_"
    THEN Stage(TRUE, Put(ss, "nav_action", S_goto \o EnterPath(ss, e.name)), f, {}, <<>>)
    ELSE IF e.key = "del_dir_"
    THEN ConfirmDelete(Put(ss, "dir_to_delete", e.name), f, c, e.name, "rm -rf",
                       "dir_to_delete", "Successfully deleted directory",
                       "Failed to delete directory", "Error deleting directory", o)
    ELSE IF e.key = "confirm_delete_dir_" /\ Pending(ss, "dir_to_delete", e.name)
    THEN ConfirmDelete(ss, f, c, e.name, "rm -rf", "dir_to_delete",
                       "Successfully deleted directory", "Failed to delete directory",
                       "Error deleting directory", o)
    ELSE IF e.key = "cancel_delete_dir_" /\ Pending(ss, "dir_to_delete", e.name)
    THEN Stage(TRUE, Del(ss, "dir_to_delete"), f, {}, <<>>)
    ELSE Stage(FALSE, ss, f, {}, <<>>)

\* the loop over directories, for the interaction e
DirLoop(ss, f, c, files, e, o) ==
    IF e.name \notin NameSet(Dirs(files)) THEN Stage(FALSE, ss, f, {}, <<>>)
    ELSE IF e.key = "dir_"
    THEN Stage(TRUE, Put(ss, "nav_action", S_goto \o EnterPath(ss, e.name)), f, {}, <<>>)
    ELSE IF e.key = "del_dir_"
    THEN Stage(TRUE, Put(ss, "dir_to_delete", e.name), f, {}, <<>>)
    ELSE IF e.key = "confirm_delete_dir_" /\ Pending(ss, "dir_to_delete", e.name)
    THEN ConfirmDelete(ss, f, c, e.name, "rm -rf", "dir_to_delete",
                       "Successfully deleted directory", "Failed to delete directory",
                       "Error deleting directory", o)
    ELSE IF e.key = "cancel_delete_dir_" /\ Pending(ss, "dir_to_delete", e.name)
    THEN Stage(TRUE, Del(ss, "dir_to_delete"), f, {}, <<>>)
    ELSE Stage(FALSE, ss, f, {}, <<>>)

\* FileLoop whose Cancel button runs the remove command like Yes, Delete
FileLoop_CancelRemoves(ss, f, c, files, e, o) ==
    IF e.name \notin NameSet(RegularFiles(files)) THEN Stage(FALSE, ss, f, {}, <<>>)
    ELSE IF e.key = "select_"
    THEN Stage(TRUE, Put(ss, "selected_file_for_download", e.name), f, {}, <<>>)
    ELSE IF e.key = "del_file_"
    THEN Stage(TRUE, Put(ss, "file_to_delete", e.name), f, {}, <<>>)
    ELSE IF e.key = "confirm_delete_" /\ Pending(ss, "file_to_delete", e.name)
    THEN ConfirmDelete(ss, f, c, e.name, "rm -f", "file_to_delete",
                       "Successfully deleted", "Failed to delete file",
                       "Error deleting file", o)
    ELSE IF e.key = "cancel_delete_" /\ Pending(ss, "file_to_delete", e.name)
    THEN ConfirmDelete(ss, f, c, e.name, "rm -f", "file_to_delete",
                       "Successfully deleted", "Failed to delete file",
                       "Error deleting file", "ok")
    ELSE Stage(FALSE, ss, f, {}, <<>>)

\* the loop over regular files, for the interaction e
FileLoop(ss, f, c, files, e, o) ==
    IF e.name \notin NameSet(RegularFiles(files)) THEN Stage(FALSE, ss, f, {}, <<>>)
    ELSE IF e.key = "select_"
    THEN Stage(TRUE, Put(ss, "selected_file_for_download", e.name), f, {}, <<>>)
    ELSE IF e.key = "del_file_"
    THEN Stage(TRUE, Put(ss, "file_to_delete", e.name), f, {}, <<>>)
    ELSE IF e.key = "confirm_delete_" /\ Pending(ss, "file_to_delete", e.name)
    THEN ConfirmDelete(ss, f, c, e.name, "rm -f", "file_to_delete",
                       "Successfully deleted", "Failed to delete file",
                       "Error deleting file", o)
    ELSE IF e.key = "cancel_delete_" /\ Pending(ss, "file_to_delete", e.name)
    THEN Stage(TRUE, Del(ss, "file_to_delete"), f, {}, <<>>)
    ELSE Stage(FALSE, ss, f, {}, <<>>)

\* the widgets the two loops render
ItemWidgets(ss, files) ==
    UNION {{W("dir_", n), W("del_dir_", n)} : n \in NameSet(Dirs(files))}
    \cup {W(k, n) : k \in {"confirm_delete_dir_", "cancel_delete_dir_"},
                    n \in {x \in NameSet(Dirs(files)) : Pending(ss, "dir_to_delete", x)}}
    \cup UNION {{W("select_", n), W("del_file_", n)} : n \in NameSet(RegularFiles(files))}
    \cup {W(k, n) : k \in {"confirm_delete_", "cancel_delete_"},
                    n \in {x \in NameSet(RegularFiles(files)) : Pending(ss, "file_to_delete", x)}}

\* extracted_file.read() of a member
ReadMember(m) == SubSeq(m.data, 1, m.size)

Staged(ss) ==
    Has(ss, "selected_file_for_download") /\ Truthy(ss["selected_file_for_download"])

\* bits, stat = container.get_archive(p): the archive, an archive without
\* entries (o = "empty"), or an exception
TryGetArchive(f, c, p, o) ==
    IF o = "ok" /\ PathExists(f[c], c, p, FALSE)
    THEN [ok |-> TRUE, tar |-> GetArchive(f[c], c, p)]
    ELSE IF o = "empty" /\ PathExists(f[c], c, p, FALSE)
    THEN [ok |-> TRUE, tar |-> <<>>]
    ELSE [ok |-> FALSE, tar |-> <<>>]

NoPrepare ==
    [ran |-> FALSE, widgets |-> {}, messages |-> {}, calls |-> <<>>, downloads |-> <<>>]

\* PrepareFile that offers the bytes read so far when the archive has no entry
PrepareFile_OffersWithoutEntry(c, selected_file, full_path, got) ==
    IF ~got.ok
    THEN [ran |-> TRUE, widgets |-> {W("cancel_download_error", <<>>)},
          messages |-> {"Error preparing file for download"},
          calls |-> <<Call("get_archive", c, full_path, "raise")>>,
          downloads |-> <<>>]
    ELSE [ran |-> TRUE,
          widgets |-> {W("dl_", selected_file), W("cancel_download", <<>>)},
          messages |-> {},
          calls |-> <<Call("get_archive", c, full_path,
                           IF got.tar = <<>> THEN "empty" ELSE "ok")>>,
          downloads |-> <<[file_name |-> selected_file,
                           data |-> IF got.tar = <<>> THEN <<>>
                                    ELSE ReadMember(got.tar[1])]>>]

\* the try block of the file download, for the result got of get_archive
PrepareFile(c, selected_file, full_path, got) ==
    IF ~got.ok \/ got.tar = <<>>
    THEN [ran |-> TRUE, widgets |-> {W("cancel_download_error", <<>>)},
          messages |-> {"Error preparing file for download"},
          calls |-> <<Call("get_archive", c, full_path,
                           IF got.ok THEN "empty" ELSE "raise")>>,
          downloads |-> <<>>]
    ELSE IF got.tar[1].isfile
    THEN [ran |-> TRUE,
          widgets |-> {W("dl_", selected_file), W("cancel_download", <<>>)},
          messages |-> {}, calls |-> <<Call("get_archive", c, full_path, "ok")>>,
          downloads |-> <<[file_name |-> selected_file, data |-> ReadMember(got.tar[1])]>>]
    ELSE [ran |-> TRUE, widgets |-> {}, messages |-> {},
          calls |-> <<Call("get_archive", c, full_path, "ok")>>, downloads |-> <<>>]

\* "Step 2: Prepare file for download after selection"
\* yields [ran, widgets, messages, calls, downloads]
Prepare(ss, f, c, files, o) ==
    IF RegularFiles(files) = <<>> \/ ~Staged(ss) THEN NoPrepare
    ELSE PrepareFile(c, ss["selected_file_for_download"],
                     join(ss["current_path"], ss["selected_file_for_download"]),
                     TryGetArchive(f, c, join(ss["current_path"],
                                              ss["selected_file_for_download"]), o))

S_tar == <<".", "t", "a", "r">>

\* basename(current_path.rstrip('/')) or 'root'
FolderName(path) ==
    IF Truthy(basename(rstrip(path))) THEN basename(rstrip(path)) ELSE S_root

\* the try block of the folder download, for the result got of get_archive
FolderArchive(c, path, got) ==
    IF got.ok
    THEN [messages |-> {}, calls |-> <<Call("get_archive", c, path, "ok")>>,
          downloads |-> <<[file_name |-> FolderName(path) \o S_tar, data |-> got.tar]>>,
          widgets |-> {W("Download TAR Archive", <<>>)}]
    ELSE [messages |-> {"Error creating archive"},
          calls |-> <<Call("get_archive", c, path, "raise")>>,
          downloads |-> <<>>, widgets |-> {}]

\* "Download folder as .tar": [messages, calls, downloads, widgets]
DownloadFolder(ss, f, c, e, o) ==
    IF e.key # "Download folder as .tar"
    THEN [messages |-> {}, calls |-> <<>>, downloads |-> <<>>, widgets |-> {}]
    ELSE FolderArchive(c, ss["current_path"], TryGetArchive(f, c, ss["current_path"], o))

\* BuildTar that leaves tarinfo.size at its default 0
BuildTar_NoSize(file) ==
    <<[name |-> file.name, isfile |-> TRUE, size |-> 0, data |-> file.data]>>

\* the single-entry archive built from the uploaded file
BuildTar(file) ==
    <<[name |-> file.name, isfile |-> TRUE, size |-> Len(file.data), data |-> file.data]>>

\* "Upload to container" with the uploader holding up (<<>> or <<file>>)
Upload(ss, f, up, c, e, o) ==
    IF e.key # "Upload to container" \/ up = <<>> THEN Stage(FALSE, ss, f, {}, <<>>)
    ELSE IF o = "ok" /\ CanPutArchive(f[c], c, ss["current_path"], BuildTar(up[1]))
    THEN Stage(TRUE, ss,
               [f EXCEPT ![c] = PutArchive(f[c], NodeOf(c, ss["current_path"], FALSE),
                                           BuildTar(up[1]))],
               {"Uploaded"}, <<Call("put_archive", c, ss["current_path"], "ok")>>)
    ELSE Stage(FALSE, ss, f, {"Error uploading file"},
               <<Call("put_archive", c, ss["current_path"], "raise")>>)

(***************************************************************************)
(* One run of the script.  The result is                                   *)
(* [ss, fs, rerun, widgets, messages, calls, downloads].                   *)
(***************************************************************************)
Result(ss, f, rerun, w, m, cl, dl) ==
    [ss |-> ss, fs |-> f, rerun |-> rerun, widgets |-> w, messages |-> m,
     calls |-> cl, downloads |-> dl]

\* the run ended by st.rerun(): nothing stays on the page to interact with
Abort(ss, f, m, cl) == Result(ss, f, TRUE, {}, m, cl, <<>>)

\* the page below a successful listing, given what its stages yield:
\* d the directory loop, r the file loop, prep the download preparation,
\* fold the folder download, upl the upload
Page(ss, f, up, files, e, lscall, d, r, prep, fold, upl) ==
    LET empty == IF files = <<>> THEN {"Directory is empty"} ELSE {}
        m3 == d.messages \cup r.messages \cup prep.messages \cup empty
        c3 == <<lscall>> \o d.calls \o r.calls \o prep.calls
    IN  IF d.rerun THEN Abort(d.ss, d.fs, d.messages, <<lscall>> \o d.calls)
        ELSE IF r.rerun
        THEN Abort(r.ss, r.fs, d.messages \cup r.messages, <<lscall>> \o d.calls \o r.calls)
        ELSE IF e.key \in {"cancel_download", "cancel_download_error"}
                /\ W(e.key, <<>>) \in prep.widgets
        THEN Abort(Del(ss, "selected_file_for_download"), f, m3, c3)
        ELSE IF upl.rerun
        THEN Abort(upl.ss, upl.fs, m3 \cup fold.messages \cup upl.messages,
                   c3 \o fold.calls \o upl.calls)
        ELSE IF e.key = "Refresh"
        THEN Abort(ss, f, m3 \cup fold.messages \cup upl.messages, c3 \o fold.calls \o upl.calls)
        ELSE Result(ss, f, FALSE,
                    NavWidgets \cup ItemWidgets(ss, files) \cup prep.widgets \cup fold.widgets
                    \cup {W("Download folder as .tar", <<>>), W("file_uploader", <<>>),
                          W("Refresh", <<>>)}
                    \cup (IF up # <<>> THEN {W("Upload to container", <<>>)} ELSE {}),
                    m3 \cup fold.messages \cup upl.messages,
                    c3 \o fold.calls \o upl.calls,
                    prep.downloads \o fold.downloads)

\* the page when the listing succeeded (the else branch of "if error")
Body(ss, f, up, c, files, e, o, lscall) ==
    Page(ss, f, up, files, e, lscall,
         DirLoop(ss, f, c, files, e, o.op), FileLoop(ss, f, c, files, e, o.op),
         Prepare(ss, f, c, files, o.prep), DownloadFolder(ss, f, c, e, o.op),
         Upload(ss, f, up, c, e, o.op))

\* Listing that sends the session back to '/' when the listing fails
Listing_ErrorResetsPath(ss, f, up, c, e, o, act, ls, lscall) ==
    IF Truthy(act) THEN Abort(Put(ss, "nav_action", act), f, {}, <<>>)
    ELSE IF ~ls.ok
    THEN Result(Put(ss, "current_path", P_root), f, FALSE, NavWidgets, {ls.error},
                <<lscall>>, <<>>)
    ELSE Body(ss, f, up, c, ls.files, e, o, lscall)

\* the navigation controls, the listing and the page: act is the action the
\* controls request, ls the result of list_directory, lscall its remote call
Listing(ss, f, up, c, e, o, act, ls, lscall) ==
    IF Truthy(act) THEN Abort(Put(ss, "nav_action", act), f, {}, <<>>)
    ELSE IF ~ls.ok THEN Result(ss, f, FALSE, NavWidgets, {ls.error}, <<lscall>>, <<>>)
    ELSE Body(ss, f, up, c, ls.files, e, o, lscall)

\* the script after the session initialisation
Script(ss, f, up, c, e, o) ==
    IF NavPending(ss) THEN Abort(NavHandler(ss), f, {}, <<>>)
    ELSE Listing(ss, f, up, c, e, o, ControlAction(ss, e),
                 list_directory(f[c], c, ss["current_path"], o.ls),
                 Call("ls -la", c, ss["current_path"],
                      LsResult(f[c], c, ss["current_path"], o.ls)))

\* the script from the container selection on, for container c selected in
\* the selectbox, interaction e and remote outcomes o
Run(ss0, f, up, c, e, o) == Script(SessionInit(ss0, c), f, up, c, e, o)

(***************************************************************************)
(* History of the delete selections (for the claims about the flow)        *)
(***************************************************************************)
Sel(kind, name) == [kind |-> kind, name |-> name]

\* the history keeps the last two selections
Remember(h, x) ==
    LET h1 == Append(h, x)
    IN  IF Len(h1) > 2 THEN Tail(h1) ELSE h1

\* the entry a delete button, a confirm or a cancel button belongs to
SelOf(e) ==
    Sel(IF e.key \in {"del_dir_", "confirm_delete_dir_", "cancel_delete_dir_"}
        THEN "dir" ELSE "file", e.name)

HistoryAfter(h, e, r) ==
    IF e.key \in {"del_dir_", "del_file_"} /\ r.rerun
    THEN Remember(h, SelOf(e))
    ELSE h

\* where delete was selected so far: the container, the current_path and the
\* entry of every delete button clicked
PlacesAfter(places, e, r) ==
    IF e.key \in {"del_dir_", "del_file_"} /\ r.rerun
    THEN places \cup {[container |-> r.ss["selected_container"][1],
                       path |-> r.ss["current_path"], sel |-> SelOf(e)]}
    ELSE places

\* The last successful upload, <<>> or <<[container, path, name, data]>>,
\* forgotten when a later run changes a filesystem otherwise.
UploadAfter(u, f, up, r) ==
    IF r.calls # <<>> /\ r.calls[Len(r.calls)].op = "put_archive"
       /\ r.calls[Len(r.calls)].result = "ok"
    THEN <<[container |-> r.calls[Len(r.calls)].container,
            path |-> r.calls[Len(r.calls)].path,
            name |-> up[1].name, data |-> up[1].data]>>
    ELSE IF r.fs # f THEN <<>>
    ELSE u

(***************************************************************************)
(* Actions: one script run each                                            *)
(***************************************************************************)
PathInputs == {<<>>, <<"/">>, <<"/", "a", "/">>, <<"a">>}

UploadNames == {<<"c">>}
UploadData == {<<>>, <<7>>}
UploadFiles == [name : UploadNames, data : UploadData]

NoEvent == [key |-> "", name |-> <<>>, value |-> <<>>]
Ev(key, name, value) == [key |-> key, name |-> name, value |-> value]

\* the page before its first run
InitPage ==
    /\ fs = [c \in Containers |-> InitFs(c)]
    /\ selectbox = "c1"
    /\ uploaded_file = <<>>
    /\ pending_run = TRUE
    /\ widgets = {}
    /\ messages = {}
    /\ calls = <<>>
    /\ downloads = <<>>
    /\ last = NoEvent
    /\ delete_history = <<>>
    /\ interactions = 0
    /\ last_upload = <<>>
    /\ delete_places = {}
    /\ returned = FALSE
    /\ display_lines = <<>>
    /\ log_buffer = <<>>
    /\ received = <<>>

Init ==
    /\ session_state = EmptySession
    /\ InitPage
    /\ status = [c \in Containers |-> "exited"]
    /\ stdout = <<>>
    /\ listing = <<>>
    /\ entered_from = <<>>

Rendered(key, name) == ~pending_run /\ W(key, name) \in widgets

\* How the remote calls of a run can end.  The listing call fails by itself
\* when the path does not exist; the daemon can make any call raise, and a
\* remove command can also exit nonzero.
NoCalls == [ls : {"ok"}, op : {"ok"}, prep : {"ok"}]
PrepOutcomes == IF Staged(session_state) THEN {"ok", "empty", "raise"} ELSE {"ok"}
ListingOnly == [ls : {"ok", "raise"}, op : {"ok"}, prep : PrepOutcomes]
WithRemove == [ls : {"ok", "raise"}, op : Outcomes, prep : PrepOutcomes]
WithArchive == [ls : {"ok", "raise"}, op : {"ok", "raise"}, prep : PrepOutcomes]

\* the user interacts with the page at most MaxInteractions times
MaxInteractions == 4

\* the run for interaction e with the selectbox on c, the uploader holding up
\* and the remote calls ending as o
DoRun(e, c, up, o) ==
    /\ e # NoEvent => interactions < MaxInteractions
    /\ \E r \in {Run(session_state, fs, up, c, e, o)} :
        /\ session_state' = r.ss
        /\ fs' = r.fs
        /\ interactions' = IF e # NoEvent THEN interactions + 1 ELSE interactions
        /\ selectbox' = c
        /\ uploaded_file' = up
        /\ pending_run' = r.rerun
        /\ widgets' = r.widgets
        /\ messages' = r.messages
        /\ calls' = r.calls
        /\ downloads' = r.downloads
        /\ last' = e
        /\ delete_history' = HistoryAfter(delete_history, e, r)
        /\ last_upload' = UploadAfter(last_upload, fs, up, r)
        /\ delete_places' = PlacesAfter(delete_places, e, r)
        /\ UNCHANGED <<stdout, listing, entered_from, others>>

\* a user interaction that carries no value
Click(key, name, os) ==
    /\ Rendered(key, name)
    /\ \E o \in os : DoRun(Ev(key, name, <<>>), selectbox, uploaded_file, o)

\* the first load of the page and every run started by st.rerun()
Rerun ==
    /\ pending_run
    /\ \E o \in (IF NavPending(session_state) THEN NoCalls ELSE ListingOnly) :
          DoRun(NoEvent, selectbox, uploaded_file, o)

SelectContainer ==
    /\ Rendered("selectbox", <<>>)
    /\ \E c \in Containers \ {selectbox} : \E o \in ListingOnly :
          DoRun(Ev("selectbox", <<>>, <<c>>), c, uploaded_file, o)

TypePath ==
    /\ Rendered("text_input", <<>>)
    /\ \E p \in PathInputs \ {session_state["current_path"]} : \E o \in NoCalls :
          DoRun(Ev("text_input", <<>>, p), selectbox, uploaded_file, o)

ClickRoot == Click("btn_root", <<>>, NoCalls)
ClickUp == Click("btn_up", <<>>, NoCalls)
ClickTmp == Click("btn_tmp", <<>>, NoCalls)
ClickHome == Click("btn_home", <<>>, NoCalls)
EnterDirectory == \E n \in Names : Click("dir_", n, ListingOnly)
SelectDeleteDir == \E n \in Names : Click("del_dir_", n, ListingOnly)
ConfirmDeleteDir == \E n \in Names : Click("confirm_delete_dir_", n, WithRemove)
CancelDeleteDir == \E n \in Names : Click("cancel_delete_dir_", n, ListingOnly)
SelectForDownload == \E n \in Names : Click("select_", n, ListingOnly)
SelectDeleteFile == \E n \in Names : Click("del_file_", n, ListingOnly)
ConfirmDeleteFile == \E n \in Names : Click("confirm_delete_", n, WithRemove)
CancelDeleteFile == \E n \in Names : Click("cancel_delete_", n, ListingOnly)
ClickDownload == \E n \in Names : Click("dl_", n, ListingOnly)
CancelDownload == Click("cancel_download", <<>>, ListingOnly)
CancelDownloadError == Click("cancel_download_error", <<>>, ListingOnly)
ClickDownloadFolder == Click("Download folder as .tar", <<>>, WithArchive)
ClickRefresh == Click("Refresh", <<>>, ListingOnly)
ClickUpload == Click("Upload to container", <<>>, WithArchive)

ChooseFile ==
    /\ Rendered("file_uploader", <<>>)
    /\ \E up \in ({<<>>} \cup {<<x>> : x \in UploadFiles}) \ {uploaded_file} :
          \E o \in ListingOnly : DoRun(Ev("file_uploader", <<>>, up), selectbox, up, o)

Next ==
    \/ Rerun
    \/ SelectContainer
    \/ TypePath
    \/ ClickRoot
    \/ ClickUp
    \/ ClickTmp
    \/ ClickHome
    \/ EnterDirectory
    \/ SelectDeleteDir
    \/ ConfirmDeleteDir
    \/ CancelDeleteDir
    \/ SelectForDownload
    \/ SelectDeleteFile
    \/ ConfirmDeleteFile
    \/ CancelDeleteFile
    \/ ClickDownload
    \/ CancelDownload
    \/ CancelDownloadError
    \/ ClickDownloadFolder
    \/ ClickUpload
    \/ ChooseFile
    \/ ClickRefresh

Spec == Init /\ [][Next]_vars

(***************************************************************************)
(* list_directory's parser on its own: stdout is the standard output of    *)
(* the listing command, listing is <<>> before the parser ran and <<files>> *)
(* after.                                                                  *)
(***************************************************************************)
MaxLines == 3

\* lines a listing command prints: the summary line, '.', '..', a
\* directory, a file whose name holds a space, a file in padded columns
ListingLines ==
    {TotalLine, LsLine(Dir, <<".">>), LsLine(Dir, <<".", ".">>),
     LsLine(Dir, <<"a">>), LsLine(File(<<1>>), <<"b", SPACE, "c">>),
     JoinWith(<<PermFile, F_links, F_owner, F_owner, <<SPACE, "7">>,
                F_month, <<SPACE, "1">>, F_time, <<"c">> >>, SPACE)}

\* the outputs of at most n such lines, in any order, with or without the
\* summary line
RECURSIVE OutputsOf(_)
OutputsOf(n) ==
    IF n = 0 THEN {<<>>}
    ELSE OutputsOf(n - 1)
         \cup {o \o l \o <<NL>> : o \in OutputsOf(n - 1), l \in ListingLines}

ParseInit ==
    /\ session_state = EmptySession
    /\ InitPage
    /\ status = [c \in Containers |-> "exited"]
    /\ stdout \in OutputsOf(MaxLines)
    /\ listing = <<>>
    /\ entered_from = <<>>

ParseListing ==
    /\ listing = <<>>
    /\ listing' = <<parse_output(stdout)>>
    /\ UNCHANGED <<session_state, fs, selectbox, uploaded_file, pending_run,
                   widgets, messages, calls, downloads, last, delete_history,
                   interactions, last_upload, stdout, entered_from, delete_places, others>>

SpecParse == ParseInit /\ [][ParseListing]_vars

(***************************************************************************)
(* The navigation on its own: the buttons that set nav_action and the      *)
(* handler that applies it, from any current_path.  entered_from is <<>>   *)
(* or <<p>> for the current_path p at the click of a directory button,     *)
(* kept until the click after it, or the one after an "Up" that follows it.*)
(***************************************************************************)
MaxPathLen == 3

\* the strings of at most n characters out of '/' and 'a'
RECURSIVE PathsOf(_)
PathsOf(n) ==
    IF n = 0 THEN {<<>>}
    ELSE PathsOf(n - 1) \cup {Append(q, ch) : q \in PathsOf(n - 1), ch \in {SLASH, "a"}}

\* the session of the first container, at any of these paths
NavInit ==
    /\ \E p \in PathsOf(MaxPathLen) :
          session_state = Put(SessionInit(EmptySession, "c1"), "current_path", p)
    /\ InitPage
    /\ status = [c \in Containers |-> "exited"]
    /\ stdout = <<>>
    /\ listing = <<>>
    /\ entered_from = <<>>

\* a click e that makes the script store the action act and rerun
NavClick(e, act) ==
    /\ ~NavPending(session_state)
    /\ interactions < MaxInteractions
    /\ session_state' = Put(session_state, "nav_action", act)
    /\ last' = e
    /\ interactions' = interactions + 1
    /\ entered_from' = (IF e.key = "dir_" THEN <<session_state["current_path"]>>
                        ELSE IF e.key = "btn_up" /\ last.key = "dir_" THEN entered_from
                        ELSE <<>>)
    /\ UNCHANGED <<fs, selectbox, uploaded_file, pending_run, widgets, messages,
                   calls, downloads, delete_history, last_upload, stdout, listing,
                   delete_places, others>>

\* the button of a listed directory
NavEnter ==
    \E n \in Names :
        NavClick(Ev("dir_", n, <<>>), S_goto \o EnterPath(session_state, n))

\* the Root, Up, Tmp and Home buttons
NavButton ==
    \E k \in {"btn_root", "btn_up", "btn_tmp", "btn_home"} :
        NavClick(Ev(k, <<>>, <<>>), ControlAction(session_state, Ev(k, <<>>, <<>>)))

\* the run that finds nav_action set
NavHandle ==
    /\ NavPending(session_state)
    /\ session_state' = NavHandler(session_state)
    /\ UNCHANGED <<fs, selectbox, uploaded_file, pending_run, widgets, messages,
                   calls, downloads, last, delete_history, interactions,
                   last_upload, stdout, listing, entered_from, delete_places, others>>

NavNext == NavEnter \/ NavButton \/ NavHandle

SpecNav == NavInit /\ [][NavNext]_vars

(***************************************************************************)
(* Vocabulary of the claims                                                *)
(***************************************************************************)
current_path == session_state["current_path"]

IsRm(call) == call.op \in {"rm -rf", "rm -f"}
RmCalls(cl) == {i \in 1..Len(cl) : IsRm(cl[i])}

DeleteKeys == {"del_dir_", "del_file_"}
ConfirmKeys == {"confirm_delete_dir_", "confirm_delete_"}
CancelKeys == {"cancel_delete_dir_", "cancel_delete_"}

\* the session key that holds the pending entry of the kind of interaction e
PendingKey(e) == IF SelOf(e).kind = "dir" THEN "dir_to_delete" ELSE "file_to_delete"
PendingKeys == {"dir_to_delete", "file_to_delete"}

\* the confirmation dialogs on the page
ConfirmDialogs == {w \in widgets : w.key \in ConfirmKeys}

\* the listing call of the run succeeded, so the page below it was built
ListingOk(cl) == Len(cl) > 0 /\ cl[1].op = "ls -la" /\ cl[1].result = "ok"

\* C1: in every session state current_path is a non-empty string that
\* starts with '/'
C1_CurrentPathAbsolute ==
    Has(session_state, "current_path") =>
        /\ current_path # <<>>
        /\ startswith(current_path, <<SLASH>>)

\* C2: a remove command is issued only by a confirm click on an entry that is
\* pending confirmation at that moment, for the path of that entry; an entry
\* becomes pending only by a delete selection on it, and a delete selection
\* or any other interaction never issues a remove command
C2_RemoveOnlyByConfirm ==
    [][/\ \A i \in RmCalls(calls') :
             /\ last'.key \in ConfirmKeys
             /\ Pending(session_state, PendingKey(last'), last'.name)
             /\ calls'[i].path = join(current_path, last'.name)
             /\ calls'[i].container = selectbox
       /\ \A k \in PendingKeys :
             (Has(session_state', k) /\ ~(Has(session_state, k) /\ session_state[k] = session_state'[k]))
             => /\ last'.key \in DeleteKeys
                /\ PendingKey(last') = k
                /\ last'.name = session_state'[k]
                /\ RmCalls(calls') = {}]_vars

C2_Witness ==
    /\ last.key = "confirm_delete_dir_"
    /\ \E i \in RmCalls(calls) : calls[i].op = "rm -rf" /\ calls[i].path = <<"/", "a", "/", "a">>

\* C3: at most one entry is pending confirmation at any time, whatever the
\* kinds of the entries: the page never shows two confirmation dialogs
C3_AtMostOnePending == Cardinality(ConfirmDialogs) <= 1

\* C4: after delete was selected on A and then on a different entry B, a
\* confirm issues the remove command for B only
C4_ConfirmRemovesLatest ==
    [][(Len(delete_history) = 2 /\ delete_history[1] # delete_history[2])
       => \A i \in RmCalls(calls') : SelOf(last') = delete_history[2]]_vars

FailedDeleteMessages ==
    {"Failed to delete directory", "Error deleting directory",
     "Failed to delete file", "Error deleting file"}

\* the run just made was a confirm whose remove command failed
ConfirmFailed ==
    /\ last.key \in ConfirmKeys
    /\ \E i \in RmCalls(calls) : calls[i].result # "ok"

\* C5: when a confirmed delete fails the error is reported and the pending
\* state is cleared, no confirmation dialog remains
C5_FailureClearsPending ==
    ConfirmFailed =>
        /\ messages \cap FailedDeleteMessages # {}
        /\ ~Has(session_state, PendingKey(last))
        /\ ConfirmDialogs = {}

\* the run just made was a confirm whose remove command exited 0
ConfirmSucceeded ==
    /\ last.key \in ConfirmKeys
    /\ \E i \in RmCalls(calls) : calls[i].result = "ok"

\* C6: when a confirmed delete succeeds the pending state is cleared and the
\* next run lists the current path afresh (the removed entry is gone from it)
C6_SuccessClearsAndRelists ==
    [][ConfirmSucceeded =>
          /\ ~Has(session_state, PendingKey(last))
          /\ pending_run
          /\ Len(calls') >= 1
          /\ calls'[1].op = "ls -la"
          /\ calls'[1].path = current_path
          /\ calls'[1].container = selectbox
          /\ session_state' = session_state
          /\ (ListingOk(calls') =>
                 /\ ~pending_run'
                 /\ \A w \in widgets' : w.name = last.name =>
                       w.key \notin (IF SelOf(last).kind = "dir"
                                     THEN {"dir_", "del_dir_"}
                                     ELSE {"select_", "del_file_"}))]_vars

C6_Witness ==
    /\ ConfirmSucceeded
    /\ last.key = "confirm_delete_"
    /\ pending_run
    /\ ~Has(session_state, "file_to_delete")
    /\ \E c \in Containers : \E n \in DOMAIN InitFs(c) : n \notin DOMAIN fs[c]

C8_ContainerChangeResetsPath ==
    [][selectbox' # selectbox =>
          /\ session_state'["selected_container"] = <<selectbox'>>
          /\ session_state'["current_path"] =
                (IF ConfigWorkingDir(selectbox') = <<>> THEN <<"/">>
                 ELSE ConfigWorkingDir(selectbox'))]_vars

C8_Witness ==
    /\ last.key = "selectbox"
    /\ selectbox = "c2"
    /\ current_path = <<"/">>
    /\ interactions >= 2

\* C9: immediately after a change of the selected container no entry is
\* pending confirmation
C9_ContainerChangeDiscardsPending ==
    last.key = "selectbox" =>
        /\ ConfirmDialogs = {}
        /\ \A k \in PendingKeys : ~Has(session_state, k)

TransferFailures(cl) ==
    {i \in 1..Len(cl) : cl[i].op \in {"ls -la", "put_archive", "get_archive"}
                         /\ cl[i].result # "ok"}

\* C10: a failure of a listing, an upload, a file download or a folder
\* download is reported, leaves current_path and the selected container as
\* they were, and leaves the navigation controls on the page
C10_FailuresAreNotFatal ==
    [][\A i \in TransferFailures(calls') :
          /\ \E m \in messages' :
                m = (IF calls'[i].op = "ls -la"
                     THEN (IF calls'[i].result = "raise" THEN "exception"
                           ELSE "Error accessing path")
                     ELSE IF calls'[i].op = "put_archive" THEN "Error uploading file"
                     ELSE IF last'.key = "Download folder as .tar" /\ i = Len(calls')
                     THEN "Error creating archive"
                     ELSE "Error preparing file for download")
          /\ (Has(session_state, "current_path") /\ last'.key # "selectbox"
              => /\ session_state'["current_path"] = current_path
                 /\ session_state'["selected_container"] = session_state["selected_container"])
          /\ selectbox' = (IF last'.key = "selectbox" THEN last'.value[1] ELSE selectbox)
          /\ (~pending_run' => NavWidgets \subseteq widgets')]_vars

C10_Witness ==
    /\ ~pending_run
    /\ {"Error creating archive", "Error preparing file for download"} \subseteq messages
    /\ NavWidgets \subseteq widgets

\* the downloads the page offers for the entry of the last upload: the file
\* download of that name, from the directory and container of the upload
RoundTrips ==
    {i \in 1..Len(downloads) :
        /\ last_upload # <<>>
        /\ ~pending_run
        /\ selectbox = last_upload[1].container
        /\ current_path = last_upload[1].path
        /\ downloads[i].file_name = last_upload[1].name}

\* C11: uploading bytes b under filename f to directory d and then
\* downloading d/f returns exactly b, the empty b included
C11_UploadDownloadRoundTrip ==
    \A i \in RoundTrips : downloads[i].data = last_upload[1].data

C11_Witness ==
    /\ RoundTrips # {}
    /\ last_upload[1].data = <<>>
    /\ downloads[1].data = <<>>

\* the get_archive calls of the download preparation in the last run (the
\* folder download asks for current_path itself)
PrepareCalls ==
    {i \in 1..Len(calls) :
        calls[i].op = "get_archive" /\ calls[i].path # current_path}

\* the file downloads on the page: those behind a "dl_<name>" button
FileDownloads ==
    {i \in 1..Len(downloads) : W("dl_", downloads[i].file_name) \in widgets}

\* C12: a file download is offered only when the archive retrieval succeeded
\* and the archive had a first entry; a non-existent path or an archive
\* without entries yields a reported error and no download at all
C12_DownloadOnlyFromFirstEntry ==
    /\ FileDownloads # {} => \E i \in PrepareCalls : calls[i].result = "ok"
    /\ \A i \in PrepareCalls :
          calls[i].result # "ok"
          => /\ FileDownloads = {}
             /\ \A w \in widgets : w.key # "dl_"
             /\ "Error preparing file for download" \in messages

C12_Witness ==
    /\ ~pending_run
    /\ \E i \in PrepareCalls :
          /\ calls[i].result = "raise"
          /\ ~PathExists(fs[selectbox], selectbox, calls[i].path, FALSE)
    /\ "Error preparing file for download" \in messages

\* C13: a file staged for download lives only until it is downloaded or
\* cancelled: after the download click or the cancel click no file is staged
C13_StagingEndsAtDownloadOrCancel ==
    [][last'.key \in {"dl_", "cancel_download", "cancel_download_error"}
          => ~Staged(session_state')]_vars

\* C14: after a successful upload of f to current directory d the next run
\* lists d, and that listing, when the remote command succeeds, has an entry
\* named f
C14_UploadedFileIsListed ==
    [][(calls # <<>> /\ calls[Len(calls)].op = "put_archive"
        /\ calls[Len(calls)].result = "ok")
       => /\ calls' # <<>>
          /\ calls'[1].op = "ls -la"
          /\ calls'[1].container = last_upload[1].container
          /\ calls'[1].path = last_upload[1].path
          /\ (calls'[1].result = "ok"
              => \E w \in widgets' : /\ w.key \in {"dir_", "select_"}
                                     /\ w.name = last_upload[1].name)]_vars

\* all the whitespace-separated words of a line
Words(line) == SplitWs(line, 1, Len(line))

\* the position that follows the n-th word of a line
RECURSIVE EndOfWord(_, _)
EndOfWord(line, n) ==
    IF n = 0 THEN 1 ELSE SkipWord(line, SkipSpace(line, EndOfWord(line, n - 1)))

\* what follows the 8th word of a line and the whitespace after it
Remainder(line) == SubSeq(line, SkipSpace(line, EndOfWord(line, 8)), Len(line))

\* the lines of the remote output
OutputLines == SplitNl(strip(stdout))

IsDotLine(line) ==
    Len(Words(line)) >= 9 /\ Remainder(line) \in {<<".">>, <<".", ".">>}

\* C15: a successful listing never contains an entry named '.' or '..'
C15_NoDotEntries ==
    listing # <<>> =>
        \A i \in 1..Len(listing[1]) :
            listing[1][i].name \notin {<<".">>, <<".", ".">>}

C15_Witness ==
    /\ listing # <<>>
    /\ listing[1] # <<>>
    /\ \E i \in 2..Len(OutputLines) : IsDotLine(OutputLines[i])

\* the lines that are neither the summary line nor a '.' or '..' line
EntryLines ==
    IF strip(stdout) = <<>> THEN <<>>
    ELSE SelectSeq(OutputLines, LAMBDA l : ~startswith(l, S_total) /\ ~IsDotLine(l))

\* C16: every line of the remote output other than the summary line and the
\* '.' and '..' lines yields exactly one entry, in the order of the lines,
\* also when the output has no summary line
C16_EveryLineYieldsEntry ==
    listing # <<>> =>
        /\ Len(listing[1]) = Len(EntryLines)
        /\ \A i \in 1..Len(listing[1]) :
              listing[1][i].name = Remainder(EntryLines[i])

\* the lines the parser reads that have 8 leading fields and a name
NamedLines ==
    SelectSeq(Tail(OutputLines), LAMBDA l : Len(Words(l)) >= 9 /\ ~IsDotLine(l))

\* C17: for a line with 8 leading fields followed by a name the entry's name
\* is all that follows the 8th field, spaces inside it included; the
\* permission string is field 1, the size field 5, and is_directory holds
\* exactly when the permission string starts with 'd'
C17_NameIsRemainder ==
    listing # <<>> =>
        /\ Len(listing[1]) = Len(NamedLines)
        /\ \A i \in 1..Len(NamedLines) :
              /\ listing[1][i].name = Remainder(NamedLines[i])
              /\ listing[1][i].permissions = Words(NamedLines[i])[1]
              /\ listing[1][i].size = Words(NamedLines[i])[5]
              /\ listing[1][i].is_dir = (Words(NamedLines[i])[1][1] = "d")

C17_Witness ==
    /\ listing # <<>>
    /\ \E i \in 1..Len(listing[1]) :
          /\ listing[1][i].name = <<"b", SPACE, "c">>
          /\ ~listing[1][i].is_dir
    /\ \E i \in 1..Len(listing[1]) : listing[1][i].is_dir

\* C18: for every absolute path p, entering a sub-directory x and then
\* going up yields a path equal to p modulo trailing separators
C18_EnterThenUpReturns ==
    [][(NavPending(session_state) /\ session_state["nav_action"] = S_up
        /\ entered_from # <<>> /\ startswith(entered_from[1], <<SLASH>>))
       => rstrip(session_state'["current_path"]) = rstrip(entered_from[1])]_vars

C18_Witness ==
    /\ last.key = "btn_up"
    /\ ~NavPending(session_state)
    /\ entered_from = <<<<"/", "a", "/">>>>
    /\ current_path = <<"/", "a">>

\* C19: 'up' sets current_path to the parent of current_path with its
\* trailing separators stripped; from '/' or the empty path current_path
\* is '/' afterwards
C19_UpGoesToParent ==
    [][(NavPending(session_state) /\ session_state["nav_action"] = S_up)
       => session_state'["current_path"] =
             (IF current_path \in {P_root, <<>>} THEN P_root
              ELSE dirname(rstrip(current_path)))]_vars

\* C20: entering the entry named n from current path p sets current_path to
\* p joined with n by exactly one separator
C20_EnterJoinsWithOneSeparator ==
    [][(NavPending(session_state) /\ last.key = "dir_")
       => session_state'["current_path"]
             = rstrip(current_path) \o <<SLASH>> \o last.name]_vars

C20_Witness ==
    /\ last.key = "dir_"
    /\ ~NavPending(session_state)
    /\ entered_from = <<P_root>>
    /\ current_path = <<"/", "b">>

\* C21: the 'root' action sets current_path to '/' from every session
\* state, whatever the previous path
C21_RootGoesToRoot ==
    [][(NavPending(session_state) /\ session_state["nav_action"] = S_root)
       => session_state'["current_path"] = P_root]_vars

C21_Witness ==
    /\ last.key = "btn_root"
    /\ Has(session_state, "nav_action")
    /\ ~NavPending(session_state)
    /\ current_path = P_root

\* C27: a remove command is issued only for an entry of a directory and a
\* container in which the user selected delete for that entry: a pending
\* delete does not survive a navigation or a container change
C27_RemoveWhereSelected ==
    [][\A i \in RmCalls(calls') :
          \E pl \in delete_places :
              /\ pl.container = calls'[i].container
              /\ pl.sel = SelOf(last')
              /\ join(pl.path, pl.sel.name) = calls'[i].path]_vars

\* C29: a requested navigation action is applied once: the run that applies
\* it clears nav_action, a rerun without a new user action leaves
\* current_path unchanged, and no listing is performed while nav_action is set
C29_ActionAppliedOnce ==
    [][/\ NavPending(session_state) => ~NavPending(session_state')
       /\ (last' = NoEvent /\ Has(session_state, "current_path")
           /\ ~NavPending(session_state))
          => session_state'["current_path"] = current_path
       /\ (calls' # <<>> /\ calls'[1].op = "ls -la")
          => ~NavPending(session_state)]_vars

C29_Witness ==
    /\ last = NoEvent
    /\ Has(session_state, "nav_action")
    /\ ~NavPending(session_state)
    /\ current_path = <<"/", "a", "/", "a">>
    /\ ListingOk(calls)

(***************************************************************************)
(* utils.py, create_confirmation_button on its own.  A call renders the    *)
(* button under a key; clicked tells whether this run was started by a     *)
(* click on it and o how on_confirm ends.  returned is the value of the    *)
(* last call, calls the on_confirm call it made.                           *)
(***************************************************************************)
ButtonKeys == {"a", "b", "c"}

confirm_key(key) == "confirm_" \o key

\* what a call leaves: the session, the return value, the calls, the messages
Shown(ss, ret, cl, m) == [ss |-> ss, ret |-> ret, calls |-> cl, messages |-> m]

\* a button that calls on_confirm at the first click
create_confirmation_button_OneClick(ss0, key, clicked, o) ==
    IF clicked
    THEN Shown(Put(ss0, confirm_key(key), FALSE), o = "ok",
               <<Call("on_confirm", key, <<>>, o)>>, {})
    ELSE Shown(Put(ss0, confirm_key(key), FALSE), FALSE, <<>>, {})

create_confirmation_button(ss0, key, clicked, o) ==
    LET ck == confirm_key(key)
        ss == IF ~Has(ss0, ck) THEN Put(ss0, ck, FALSE) ELSE ss0
    IN  IF clicked
        THEN IF ~ss[ck]
             THEN Shown(Put(ss, ck, TRUE), FALSE, <<>>, {"warning"})
             ELSE IF o = "ok"
             THEN Shown(Put(ss, ck, FALSE), TRUE,
                        <<Call("on_confirm", key, <<>>, o)>>, {})
             ELSE Shown(Put(ss, ck, FALSE), FALSE,
                        <<Call("on_confirm", key, <<>>, o)>>, {"error"})
        ELSE Shown(ss, FALSE, <<>>, {})

ButtonInit ==
    /\ session_state = EmptySession
    /\ InitPage
    /\ status = [c \in Containers |-> "exited"]
    /\ stdout = <<>>
    /\ listing = <<>>
    /\ entered_from = <<>>

\* a run of a script that renders the button under key
ButtonRun(key, clicked, o) ==
    /\ interactions < MaxInteractions
    /\ \E r \in {create_confirmation_button(session_state, key, clicked, o)} :
        /\ session_state' = r.ss
        /\ returned' = r.ret
        /\ calls' = r.calls
        /\ messages' = r.messages
    /\ last' = Ev(key, <<>>, <<clicked>>)
    /\ interactions' = interactions + 1
    /\ UNCHANGED <<fs, selectbox, uploaded_file, pending_run, widgets, downloads,
                   delete_history, last_upload, stdout, listing, entered_from,
                   delete_places, status, display_lines, log_buffer, received>>

\* the run started by a click on the button
ButtonClicked == \E key \in ButtonKeys : \E o \in {"ok", "raise"} : ButtonRun(key, TRUE, o)

\* a run started by anything else
ButtonIdle == \E key \in ButtonKeys : ButtonRun(key, FALSE, "ok")

ButtonNext == ButtonClicked \/ ButtonIdle

SpecButton == ButtonInit /\ [][ButtonNext]_vars

\* the confirm flag of key is set in session ss
Flag(ss, key) == Has(ss, confirm_key(key)) /\ ss[confirm_key(key)]

\* C23: on_confirm is called only at a click that finds the flag of its key
\* set, and a flag is set only by a click on its key; the call returns TRUE
\* exactly when on_confirm was called and did not raise; after a call of
\* on_confirm the flag is FALSE
C23_ConfirmOnSecondClick ==
    [][/\ calls' # <<>> => (last'.value = <<TRUE>> /\ Flag(session_state, last'.key))
       /\ \A key \in ButtonKeys :
             (Flag(session_state', key) /\ ~Flag(session_state, key))
                 => (last'.key = key /\ last'.value = <<TRUE>>)
       /\ returned' = (calls' # <<>> /\ calls'[1].result = "ok")
       /\ calls' # <<>> => (Has(session_state', confirm_key(last'.key))
                            /\ ~Flag(session_state', last'.key))]_vars

\* a second click on "a" whose on_confirm raised: FALSE returned, flag cleared
C23_Witness ==
    /\ last = Ev("a", <<>>, <<TRUE>>)
    /\ calls = <<Call("on_confirm", "a", <<>>, "raise")>>
    /\ ~returned
    /\ session_state["confirm_a"] = FALSE

(***************************************************************************)
(* pages/list.py.  status is the state of each container at the daemon     *)
(* ("removed" once it is gone); a run lists the containers and renders     *)
(* Stop and Restart for the running ones, Start and Remove for the others. *)
(***************************************************************************)
Listed(st) == {c \in Containers : st[c] # "removed"}

\* the buttons of a run over the containers in the states st
ListWidgets(st) ==
    {W(k, <<c>>) : k \in {"stop_", "restart_"}, c \in {x \in Listed(st) : st[x] = "running"}}
    \cup {W(k, <<c>>) : k \in {"start_", "remove_"}, c \in {x \in Listed(st) : st[x] # "running"}}

confirm_remove(c) == "confirm_remove_" \o c

\* what a run leaves: the session, the daemon, the calls, the messages and
\* whether it ended in st.rerun()
Ran(ss, st, cl, m, rerun) ==
    [ss |-> ss, status |-> st, calls |-> cl, messages |-> m, rerun |-> rerun]

\* a Stop, Start or Restart button: the call, then st.rerun() unless it raised
Lifecycle(ss, st, op, c, after, o) ==
    IF o = "ok"
    THEN Ran(ss, [st EXCEPT ![c] = after], <<Call(op, c, <<>>, o)>>, {}, TRUE)
    ELSE Ran(ss, st, <<Call(op, c, <<>>, o)>>, {"error"}, FALSE)

\* a Remove button that removes at the first click
RemoveButton_AtOnce(ss0, st, c, o) ==
    Lifecycle(Put(ss0, confirm_remove(c), FALSE), st, "remove", c, "removed", o)

\* the Remove button of container c, clicked
RemoveButton(ss0, st, c, o) ==
    LET ck == confirm_remove(c)
        ss == IF ~Has(ss0, ck) THEN Put(ss0, ck, FALSE) ELSE ss0
    IN  IF ~ss[ck]
        THEN Ran(Put(ss, ck, TRUE), st, <<>>, {}, TRUE)
        ELSE Lifecycle(Put(ss, ck, FALSE), st, "remove", c, "removed", o)

\* the warnings under the Remove buttons
RemoveWarnings(ss, st) ==
    {c \in Listed(st) : st[c] # "running" /\ Has(ss, confirm_remove(c)) /\ ss[confirm_remove(c)]}

\* the run for interaction e; a click counts when its button is rendered
ListPage(ss, st, e, o) ==
    LET c == e.name[1]
        r == IF W(e.key, e.name) \notin ListWidgets(st) THEN Ran(ss, st, <<>>, {}, FALSE)
             ELSE IF e.key = "stop_" THEN Lifecycle(ss, st, "stop", c, "exited", o)
             ELSE IF e.key = "restart_" THEN Lifecycle(ss, st, "restart", c, "running", o)
             ELSE IF e.key = "start_" THEN Lifecycle(ss, st, "start", c, "running", o)
             ELSE RemoveButton(ss, st, c, o)
    IN  IF r.rerun THEN r
        ELSE Ran(r.ss, r.status, r.calls, r.messages \cup RemoveWarnings(r.ss, r.status), FALSE)

ListInit ==
    /\ session_state = EmptySession
    /\ InitPage
    /\ status \in [Containers -> {"running", "exited"}]
    /\ stdout = <<>>
    /\ listing = <<>>
    /\ entered_from = <<>>

ListRun(e, o) ==
    /\ e # NoEvent => interactions < MaxInteractions
    /\ \E r \in {ListPage(session_state, status, e, o)} :
        /\ session_state' = r.ss
        /\ status' = r.status
        /\ calls' = r.calls
        /\ messages' = r.messages
        /\ pending_run' = r.rerun
        /\ widgets' = (IF r.rerun THEN widgets ELSE ListWidgets(r.status))
    /\ last' = e
    /\ interactions' = IF e # NoEvent THEN interactions + 1 ELSE interactions
    /\ UNCHANGED <<fs, selectbox, uploaded_file, downloads, delete_history,
                   last_upload, stdout, listing, entered_from, delete_places,
                   returned, display_lines, log_buffer, received>>

ListClick(key) ==
    \E c \in Containers : \E o \in {"ok", "raise"} :
        /\ Rendered(key, <<c>>)
        /\ ListRun(Ev(key, <<c>>, <<>>), o)

ListRerun == pending_run /\ ListRun(NoEvent, "ok")
ListStop == ListClick("stop_")
ListRestart == ListClick("restart_")
ListStart == ListClick("start_")
ListRemove == ListClick("remove_")

\* another client of the daemon starts or stops a container
OtherClient ==
    /\ \E c \in Listed(status) :
          status' = [status EXCEPT ![c] = IF status[c] = "running" THEN "exited" ELSE "running"]
    /\ UNCHANGED <<session_state, fs, selectbox, uploaded_file, pending_run, widgets,
                   messages, calls, downloads, last, delete_history, interactions,
                   last_upload, stdout, listing, entered_from, delete_places,
                   returned, display_lines, log_buffer, received>>

ListNext == ListRerun \/ ListStop \/ ListRestart \/ ListStart \/ ListRemove \/ OtherClient

SpecList == ListInit /\ [][ListNext]_vars

\* the remove calls among the calls cl
Removals(cl) == {i \in 1..Len(cl) : cl[i].op = "remove"}

\* the confirmation flag of container c is set in session ss
RemoveFlag(ss, c) == Has(ss, confirm_remove(c)) /\ ss[confirm_remove(c)]

\* C24: calls are made in the runs of clicks only; container.remove() is
\* called only in the run of a Remove click on that container that finds its
\* flag set, a flag is set only by a Remove
\* click on its container, and after a remove attempt the flag is FALSE
C24_ListRemoveNeedsTwoClicks ==
    [][/\ interactions' = interactions => calls' \in {calls, <<>>}
       /\ interactions' # interactions => \A i \in Removals(calls') :
             /\ last' = Ev("remove_", <<calls'[i].container>>, <<>>)
             /\ RemoveFlag(session_state, calls'[i].container)
             /\ ~RemoveFlag(session_state', calls'[i].container)
       /\ \A c \in Containers :
             (RemoveFlag(session_state', c) /\ ~RemoveFlag(session_state, c))
                 => last' = Ev("remove_", <<c>>, <<>>)]_vars

\* c1 was removed at the second click while the flag of c2 stays set
C24_Witness ==
    /\ last = Ev("remove_", <<"c1">>, <<>>)
    /\ calls = <<Call("remove", "c1", <<>>, "ok")>>
    /\ status["c1"] = "removed"
    /\ ~RemoveFlag(session_state, "c1")
    /\ RemoveFlag(session_state, "c2")

(***************************************************************************)
(* pages/config.py.  selectbox is the container the page configures.  The  *)
(* labels of the selectbox hold the status of the containers; widgets      *)
(* holds them as "option" entries next to the buttons.  delete_history is  *)
(* <<c>> for the container c that was selected at the last Remove          *)
(* Container click that set confirm_remove_config.                         *)
(***************************************************************************)
\* the order in which the daemon lists the containers
ListOrder == <<"c1", "c2">>

Options(st) == {W("option", <<c, st[c]>>) : c \in Listed(st)}

\* the containers the selectbox can yield in a run for the choice made on
\* the page rendered before: a selectbox whose options changed is a new
\* widget, which either shows its first option or keeps the choice
Selection(st, rendered, choice) ==
    IF Listed(st) = {} THEN {choice}
    ELSE IF Options(st) = {w \in rendered : w.key = "option"} THEN {choice}
    ELSE {ListOrder[CHOOSE i \in 1..Len(ListOrder) :
                        /\ ListOrder[i] \in Listed(st)
                        /\ \A j \in 1..(i - 1) : ListOrder[j] \notin Listed(st)]}
         \cup ({choice} \cap Listed(st))

\* the buttons rendered whatever the status of the container
ConfigWidgets_Ungated(is_running) ==
    {W(k, <<>>) : k \in {"rename_btn", "refresh_data", "apply_restart", "disconnect_",
                         "connect_network", "start_container", "remove_container",
                         "stop_container", "restart_container"}}

\* the buttons of a run that finds the container running or not
ConfigWidgets(is_running) ==
    {W(k, <<>>) : k \in {"rename_btn", "refresh_data"}}
    \cup (IF is_running
          THEN {W(k, <<>>) : k \in {"stop_container", "restart_container"}}
          ELSE {W(k, <<>>) : k \in {"apply_restart", "disconnect_", "connect_network",
                                    "start_container", "remove_container"}})

\* the Remove Container button, clicked with container c selected
RemoveContainer(ss0, st, c, o) ==
    LET ss == IF ~Has(ss0, "confirm_remove_config")
              THEN Put(ss0, "confirm_remove_config", FALSE) ELSE ss0
    IN  IF ~ss["confirm_remove_config"]
        THEN Ran(Put(ss, "confirm_remove_config", TRUE), st, <<>>, {"warning"}, TRUE)
        ELSE Lifecycle(Put(ss, "confirm_remove_config", FALSE), st, "remove", c, "removed", o)

\* the run for interaction e with container c selected
ConfigPage(ss, st, c, e, o) ==
    IF Listed(st) = {} \/ W(e.key, <<>>) \notin ConfigWidgets(st[c] = "running")
    THEN Ran(ss, st, <<>>, {}, FALSE)
    ELSE IF e.key = "rename_btn" THEN Lifecycle(ss, st, "rename", c, st[c], o)
    ELSE IF e.key = "apply_restart" THEN Lifecycle(ss, st, "update", c, st[c], o)
    ELSE IF e.key = "disconnect_" THEN Lifecycle(ss, st, "disconnect", c, st[c], o)
    ELSE IF e.key = "connect_network" THEN Lifecycle(ss, st, "connect", c, st[c], o)
    ELSE IF e.key = "stop_container" THEN Lifecycle(ss, st, "stop", c, "exited", o)
    ELSE IF e.key = "start_container" THEN Lifecycle(ss, st, "start", c, "running", o)
    ELSE IF e.key = "restart_container" THEN Lifecycle(ss, st, "restart", c, "running", o)
    ELSE IF e.key = "refresh_data" THEN Ran(ss, st, <<>>, {}, TRUE)
    ELSE RemoveContainer(ss, st, c, o)

ConfigInit ==
    /\ session_state = EmptySession
    /\ InitPage
    /\ status \in [Containers -> {"running", "exited"}]
    /\ stdout = <<>>
    /\ listing = <<>>
    /\ entered_from = <<>>

\* the run for interaction e after the user chose container choice
ConfigRun(e, choice, o) ==
    /\ e # NoEvent => interactions < MaxInteractions
    /\ \E c \in Selection(status, widgets, choice) :
       \E r \in {ConfigPage(session_state, status, c, e, o)} :
        /\ session_state' = r.ss
        /\ status' = r.status
        /\ calls' = r.calls
        /\ messages' = r.messages
        /\ pending_run' = r.rerun
        /\ selectbox' = c
        /\ widgets' = (IF r.rerun THEN widgets
                       ELSE IF Listed(status) = {} THEN {}
                       ELSE Options(status) \cup ConfigWidgets(status[c] = "running"))
        /\ delete_history' = (IF e.key = "remove_container" /\ r.calls = <<>>
                                 /\ Has(r.ss, "confirm_remove_config")
                                 /\ r.ss["confirm_remove_config"]
                              THEN <<c>> ELSE delete_history)
    /\ last' = e
    /\ interactions' = IF e # NoEvent THEN interactions + 1 ELSE interactions
    /\ UNCHANGED <<fs, uploaded_file, downloads, last_upload, stdout, listing,
                   entered_from, delete_places, returned, display_lines, log_buffer,
                   received>>

ConfigClick(keys) ==
    \E k \in keys : \E o \in {"ok", "raise"} :
        /\ Rendered(k, <<>>)
        /\ ConfigRun(Ev(k, <<>>, <<>>), selectbox, o)

ConfigRerun == pending_run /\ ConfigRun(NoEvent, selectbox, "ok")

ConfigSelect ==
    /\ ~pending_run
    /\ \E w \in {x \in widgets : x.key = "option"} :
          /\ w.name[1] # selectbox
          /\ ConfigRun(Ev("selectbox", <<>>, <<w.name[1]>>), w.name[1], "ok")

ConfigBasic == ConfigClick({"rename_btn", "refresh_data"})
ConfigEdit == ConfigClick({"apply_restart", "disconnect_", "connect_network"})
ConfigControl == ConfigClick({"stop_container", "start_container", "restart_container"})
ConfigRemove == ConfigClick({"remove_container"})

ConfigNext ==
    \/ ConfigRerun \/ ConfigSelect \/ ConfigBasic \/ ConfigEdit \/ ConfigControl
    \/ ConfigRemove \/ OtherClient

SpecConfig == ConfigInit /\ [][ConfigNext]_vars

\* the calls the page reserves for a container that is not running
GatedOps == {"update", "connect", "disconnect", "remove"}

\* C26: calls are made in the runs of clicks only, and a restart-policy
\* update, network connect, network disconnect or removal is issued only for
\* a container whose status at the start of that run is not "running"
C26_EditsOnlyWhenNotRunning ==
    [][/\ interactions' = interactions => calls' \in {calls, <<>>}
       /\ interactions' # interactions =>
             \A i \in 1..Len(calls') :
                 calls'[i].op \in GatedOps => status[calls'[i].container] # "running"]_vars

\* the restart policy of stopped c1 was updated, and by now another client
\* started c1
C26_Witness ==
    /\ last.key = "apply_restart"
    /\ calls = <<Call("update", "c1", <<>>, "ok")>>
    /\ status["c1"] = "running"

\* C28: container.remove() is called only for the container that was
\* selected at the click that set the confirmation flag
C28_RemoveNeedsTwoClicksOnSame ==
    [][interactions' # interactions =>
          \A i \in Removals(calls') : delete_history = <<calls'[i].container>>]_vars

(***************************************************************************)
(* pages/shell.py.  session_state holds the values of the two text inputs  *)
(* under "workdir" and "command"; every container is running.  o.verify,   *)
(* o.check and o.op tell how the path check under the working directory    *)
(* field, the path check of the Execute button and the command end.         *)
(***************************************************************************)
ShellOutcomes == [verify : Outcomes, check : Outcomes, op : {"ok", "raise"}]

\* the path check below the working directory field
AutoVerify(c, path, o) ==
    IF ~Truthy(path) THEN Ran(EmptySession, <<>>, <<>>, {}, FALSE)
    ELSE Ran(EmptySession, <<>>, <<Call("test -d", c, path, o.verify)>>,
             {CASE o.verify = "ok" -> "Path exists"
                [] o.verify = "nonzero" -> "Path does not exist"
                [] OTHER -> "Error checking path"}, FALSE)

\* an Execute button that runs the command without its path check
Execute_Unchecked(c, path, o) ==
    Ran(EmptySession, <<>>, <<Call("exec", c, path, o.op)>>,
        IF o.op = "ok" THEN {} ELSE {"Error executing command"}, FALSE)

\* the Execute button, clicked
Execute(c, path, o) ==
    IF o.check = "raise"
    THEN Ran(EmptySession, <<>>, <<Call("test -d", c, path, o.check)>>,
             {"Execute: Error checking path"}, FALSE)
    ELSE IF o.check # "ok"
    THEN Ran(EmptySession, <<>>, <<Call("test -d", c, path, o.check)>>,
             {"Cannot execute"}, FALSE)
    ELSE Ran(EmptySession, <<>>,
             <<Call("test -d", c, path, o.check), Call("exec", c, path, o.op)>>,
             IF o.op = "ok" THEN {} ELSE {"Error executing command"}, FALSE)

\* the run for interaction e with container c selected; the button is
\* disabled while the command field is empty
ShellPage(ss0, c, e, o) ==
    LET ss == IF e.key \in {"workdir", "command"} THEN Put(ss0, e.key, e.value) ELSE ss0
        v == AutoVerify(c, ss["workdir"], o)
        x == IF e.key = "execute" /\ Truthy(ss["command"])
             THEN Execute(c, ss["workdir"], o)
             ELSE Ran(EmptySession, <<>>, <<>>, {}, FALSE)
    IN  Ran(ss, <<>>, v.calls \o x.calls, v.messages \cup x.messages, FALSE)

\* the texts the user types in the two fields
WorkdirInputs == {<<>>, P_root, P_tmp, <<"/", "x">>}
CommandInputs == {<<>>, <<"l", "s">>}

ShellInit ==
    /\ session_state = Put(Put(EmptySession, "workdir", P_root), "command", <<>>)
    /\ InitPage
    /\ status = [c \in Containers |-> "running"]
    /\ stdout = <<>>
    /\ listing = <<>>
    /\ entered_from = <<>>

ShellRun(e, c, o) ==
    /\ e # NoEvent => interactions < MaxInteractions
    /\ \E r \in {ShellPage(session_state, c, e, o)} :
        /\ session_state' = r.ss
        /\ calls' = r.calls
        /\ messages' = r.messages
    /\ pending_run' = FALSE
    /\ selectbox' = c
    /\ last' = e
    /\ interactions' = IF e # NoEvent THEN interactions + 1 ELSE interactions
    /\ UNCHANGED <<fs, uploaded_file, widgets, downloads, delete_history, last_upload,
                   stdout, listing, entered_from, delete_places, others>>

ShellFirstRun == pending_run /\ \E o \in ShellOutcomes : ShellRun(NoEvent, selectbox, o)

ShellSelect ==
    /\ ~pending_run
    /\ \E c \in Containers \ {selectbox} : \E o \in ShellOutcomes :
          ShellRun(Ev("selectbox", <<>>, <<c>>), c, o)

ShellTypeWorkdir ==
    /\ ~pending_run
    /\ \E p \in WorkdirInputs \ {session_state["workdir"]} : \E o \in ShellOutcomes :
          ShellRun(Ev("workdir", <<>>, p), selectbox, o)

ShellTypeCommand ==
    /\ ~pending_run
    /\ \E p \in CommandInputs \ {session_state["command"]} : \E o \in ShellOutcomes :
          ShellRun(Ev("command", <<>>, p), selectbox, o)

ShellExecute ==
    /\ ~pending_run
    /\ Truthy(session_state["command"])
    /\ \E o \in ShellOutcomes : ShellRun(Ev("execute", <<>>, <<>>), selectbox, o)

ShellNext ==
    ShellFirstRun \/ ShellSelect \/ ShellTypeWorkdir \/ ShellTypeCommand \/ ShellExecute

SpecShell == ShellInit /\ [][ShellNext]_vars

\* the position of the Execute button's path check among the calls of a run
\* with the working directory field holding path
CheckAt(path) == IF Truthy(path) THEN 2 ELSE 1

\* C25: the command is executed only in the run of an Execute click, right
\* after the path check of that click, made in the same container for the
\* same directory, returned exit code 0; when that check fails or raises, no
\* command is executed and an error is shown
C25_ExecuteOnlyAfterCheck ==
    [][LET k == CheckAt(session_state'["workdir"])
       IN  /\ \A i \in 1..Len(calls') : calls'[i].op = "exec" =>
                 /\ last'.key = "execute"
                 /\ i = k + 1
                 /\ calls'[k] = Call("test -d", calls'[i].container, calls'[i].path, "ok")
                 /\ calls'[i].path = session_state'["workdir"]
                 /\ calls'[i].container = selectbox'
           /\ (last'.key = "execute" /\ calls'[k].result # "ok") =>
                 /\ \A i \in 1..Len(calls') : calls'[i].op # "exec"
                 /\ messages' \cap {"Cannot execute", "Execute: Error checking path"} # {}]_vars

\* the check under the field found /tmp, the check of the Execute click did
\* not: no command was executed
C25_Witness ==
    /\ last.key = "execute"
    /\ calls = <<Call("test -d", "c1", P_tmp, "ok"), Call("test -d", "c1", P_tmp, "nonzero")>>
    /\ "Cannot execute" \in messages

(***************************************************************************)
(* pages/logs.py, the paginated view.  stdout is the log of the container: *)
(* line i is the number i.  session_state holds log_offset and the values  *)
(* of the keyed widgets lines_per_page_select and page_number;             *)
(* display_lines is what the last run passed to st.code.                   *)
(***************************************************************************)
Min(a, b) == IF a < b THEN a ELSE b
Max(a, b) == IF a > b THEN a ELSE b

\* s[start:end] for 0 <= start
Slice(s, start, end) == SubSeq(s, start + 1, Min(end, Len(s)))

LinesPerPage == {50, 100, 200, 500, 1000}

total_pages(total_lines, lines_per_page) == (total_lines + lines_per_page - 1) \div lines_per_page

\* what a run leaves: the session, the lines shown, the enabled widgets, the
\* messages and whether it ended in st.rerun()
Logged(ss, shown, w, m, rerun) ==
    [ss |-> ss, display_lines |-> shown, widgets |-> w, messages |-> m, rerun |-> rerun]

\* the value of a keyed widget, or its default before it was rendered
Value(ss, key, default) == IF Has(ss, key) THEN ss[key] ELSE default

\* the values the page_number widget can yield after the widgets held the
\* session ss0 and interaction e came in: a number_input whose bounds changed
\* is either kept or built anew with value 1, and a kept value above
\* max_value raises (0)
PageValues(ss0, log_lines, e) ==
    LET before == Value(ss0, "lines_per_page_select", 100)
        after == IF e.key = "lines_per_page_select" THEN e.value[1] ELSE before
        page == IF e.key = "page_number" THEN e.value[1] ELSE Value(ss0, "page_number", 1)
    IN  IF total_pages(Len(log_lines), before) = total_pages(Len(log_lines), after)
        THEN {page}
        ELSE {1, IF page <= total_pages(Len(log_lines), after) THEN page ELSE 0}

\* the pagination controls, the display and the navigation buttons
Paginate(ss0, log_lines, e, current_page) ==
    LET total_lines == Len(log_lines)
        lines_per_page == ss0["lines_per_page_select"]
        pages == total_pages(total_lines, lines_per_page)
        ss == Put(Put(ss0, "page_number", current_page),
                  "log_offset", (current_page - 1) * lines_per_page)
        shown == Slice(log_lines, ss["log_offset"], ss["log_offset"] + lines_per_page)
        w == {W(k, <<>>) : k \in {"Clear Display", "lines_per_page_select", "page_number"}}
             \cup (IF current_page # 1
                   THEN {W("First Page", <<>>), W("Previous", <<>>)} ELSE {})
             \cup (IF current_page # pages
                   THEN {W("Next", <<>>), W("Last Page", <<>>)} ELSE {})
    IN  IF W(e.key, <<>>) \notin w THEN Logged(ss, shown, w, {}, FALSE)
        ELSE IF e.key = "First Page"
        THEN Logged(Put(ss, "log_offset", 0), shown, w, {}, TRUE)
        ELSE IF e.key = "Previous"
        THEN Logged(Put(ss, "log_offset", Max(0, ss["log_offset"] - lines_per_page)),
                    shown, w, {}, TRUE)
        ELSE IF e.key = "Next"
        THEN Logged(Put(ss, "log_offset",
                        Min(total_lines - 1, ss["log_offset"] + lines_per_page)),
                    shown, w, {}, TRUE)
        ELSE IF e.key = "Last Page"
        THEN Logged(Put(ss, "log_offset", (pages - 1) * lines_per_page), shown, w, {}, TRUE)
        ELSE Logged(ss, shown, w, {}, FALSE)

\* the run for interaction e over the log log_lines, the page_number widget
\* yielding current_page
LogsPage(ss0, log_lines, e, current_page) ==
    LET ss1 == IF ~Has(ss0, "log_offset") THEN Put(ss0, "log_offset", 0) ELSE ss0
        ss2 == IF ~Has(ss1, "logs_per_page") THEN Put(ss1, "logs_per_page", 100) ELSE ss1
        clear == {W("Clear Display", <<>>)}
    IN  IF e.key = "Clear Display" THEN Logged(Put(ss2, "log_offset", 0), <<>>, clear, {}, TRUE)
        ELSE IF log_lines = <<>> THEN Logged(ss2, <<>>, clear, {"No logs available"}, FALSE)
        ELSE IF Len(log_lines) <= 100
        THEN Logged(ss2, log_lines, clear, {"Showing all lines"}, FALSE)
        ELSE IF current_page = 0
        THEN Logged(Put(ss2, "lines_per_page_select",
                        IF e.key = "lines_per_page_select" THEN e.value[1]
                        ELSE Value(ss2, "lines_per_page_select", 100)),
                    <<>>, clear, {"Error fetching logs"}, FALSE)
        ELSE Paginate(Put(ss2, "lines_per_page_select",
                          IF e.key = "lines_per_page_select" THEN e.value[1]
                          ELSE Value(ss2, "lines_per_page_select", 100)),
                      log_lines, e, current_page)

\* the numbers of lines of the logs
LogSizes == {0, 100, 101, 250}

LogsInit ==
    /\ session_state = EmptySession
    /\ InitPage
    /\ status = [c \in Containers |-> "running"]
    /\ \E n \in LogSizes : stdout = [i \in 1..n |-> i]
    /\ listing = <<>>
    /\ entered_from = <<>>

LogsRun(e) ==
    /\ e # NoEvent => interactions < MaxInteractions
    /\ \E current_page \in PageValues(session_state, stdout, e) :
       \E r \in {LogsPage(session_state, stdout, e, current_page)} :
        /\ session_state' = r.ss
        /\ display_lines' = r.display_lines
        /\ widgets' = r.widgets
        /\ messages' = r.messages
        /\ pending_run' = r.rerun
    /\ last' = e
    /\ interactions' = IF e # NoEvent THEN interactions + 1 ELSE interactions
    /\ UNCHANGED <<fs, selectbox, uploaded_file, calls, downloads, delete_history,
                   last_upload, stdout, listing, entered_from, delete_places, status,
                   returned, log_buffer, received>>

LogsRerun == pending_run /\ LogsRun(NoEvent)

LogsLinesPerPage ==
    /\ Rendered("lines_per_page_select", <<>>)
    /\ \E n \in LinesPerPage \ {session_state["lines_per_page_select"]} :
          LogsRun(Ev("lines_per_page_select", <<>>, <<n>>))

LogsPageNumber ==
    /\ Rendered("page_number", <<>>)
    /\ \E n \in 1..total_pages(Len(stdout), session_state["lines_per_page_select"]) :
          /\ n # session_state["page_number"]
          /\ LogsRun(Ev("page_number", <<>>, <<n>>))

LogsButton ==
    \E k \in {"Clear Display", "First Page", "Previous", "Next", "Last Page"} :
        /\ Rendered(k, <<>>)
        /\ LogsRun(Ev(k, <<>>, <<>>))

LogsNext == LogsRerun \/ LogsLinesPerPage \/ LogsPageNumber \/ LogsButton

SpecLogs == LogsInit /\ [][LogsNext]_vars

\* page n of the log log_lines
PageLines(log_lines, lines_per_page, n) ==
    Slice(log_lines, (n - 1) * lines_per_page, n * lines_per_page)

\* C22: the run that follows the click of a pagination button displays the
\* page the button names: the next one, the previous one, the first or the
\* last
C22_ButtonsNavigate ==
    [][(pending_run /\ last.key \in {"First Page", "Previous", "Next", "Last Page"}) =>
          LET n == session_state["lines_per_page_select"]
              k == session_state["page_number"]
          IN  display_lines' =
                  PageLines(stdout, n,
                            CASE last.key = "Next" -> k + 1
                              [] last.key = "Previous" -> k - 1
                              [] last.key = "First Page" -> 1
                              [] OTHER -> total_pages(Len(stdout), n))]_vars

(***************************************************************************)
(* pages/logs.py, the streaming loop.  received holds the lines that came  *)
(* out of the stream so far, decoded, in arrival order; log_buffer is the  *)
(* list the loop keeps and displays.                                       *)
(***************************************************************************)
max_display_lines == 1000

\* the stream is followed for at most MaxReceived lines
MaxReceived == 1002

\* the whitespace a line of the stream can end in
LineEnds == {<<>>, <<NL>>, <<SPACE, NL>>}

\* log_line.decode(...).rstrip()
decoded_line(log_line) == SubSeq(log_line, 1, RSkipSpace(log_line, Len(log_line)))

\* a loop body that drops the newest line of a full buffer
Process_DropNewest(buffer, log_line) ==
    IF Len(buffer) + 1 > max_display_lines THEN buffer
    ELSE Append(buffer, decoded_line(log_line))

\* the body of the loop for one line of the stream
Process(buffer, log_line) ==
    LET appended == Append(buffer, decoded_line(log_line))
    IN  IF Len(appended) > max_display_lines THEN Tail(appended) ELSE appended

FollowInit ==
    /\ session_state = EmptySession
    /\ InitPage
    /\ status = [c \in Containers |-> "running"]
    /\ stdout = <<>>
    /\ listing = <<>>
    /\ entered_from = <<>>

\* line number Len(received) + 1 of the log arrives
FollowLine ==
    /\ Len(received) < MaxReceived
    /\ \E end \in LineEnds :
          LET log_line == <<ToString(Len(received) + 1)>> \o end
          IN  /\ log_buffer' = Process(log_buffer, log_line)
              /\ received' = Append(received, decoded_line(log_line))
    /\ UNCHANGED <<session_state, fs, selectbox, uploaded_file, pending_run, widgets,
                   messages, calls, downloads, last, delete_history, interactions,
                   last_upload, stdout, listing, entered_from, delete_places, status,
                   returned, display_lines>>

SpecFollow == FollowInit /\ [][FollowLine]_vars

\* C30: after a line was processed, the buffer holds at most
\* max_display_lines lines, and they are the most recent received lines in
\* arrival order
C30_BufferIsLastLines ==
    received # <<>> =>
        /\ Len(log_buffer) <= max_display_lines
        /\ log_buffer = SubSeq(received,
                               Len(received) - Min(Len(received), max_display_lines) + 1,
                               Len(received))

\* two lines were dropped: the buffer starts at line 3
C30_Witness ==
    /\ Len(received) = max_display_lines + 2
    /\ Len(log_buffer) = max_display_lines
    /\ log_buffer[1] = <<"3">>

====
